---------------------------- MODULE Spec2Model ----------------------------
(***************************************************************************)
(* A model of the DHL tracking client (src/src/lib.rs): the tracking       *)
(* number validator, the Service / StatusCode codecs, the two date codecs, *)
(* the serde deserialisation of the response model, and                    *)
(* Client::get_shipments.                                                   *)
(*                                                                         *)
(* Strings are sequences of characters; a character is a one-character     *)
(* TLA+ string, except that a character outside ASCII is written by its    *)
(* code point ("U+0663" is ARABIC-INDIC DIGIT THREE).                      *)
(***************************************************************************)
EXTENDS Integers, Sequences, FiniteSets, TLC

VARIABLES
    v_pc, v_raw, v_res,          \* TrackingNumber::try_from: position, argument, result
    s_pc, s_raw, s_res,          \* Service::try_from: position, argument, result
    d_pc, d_raw, d_res,          \* date codecs: position, argument, results
    j_pc, j_body, j_edits, j_res,  \* Response::deserialize: position, body, edits, result
    api_key,                     \* Client.api_key
    pc, c_raw, tn, request, sent, reply, bodyRead, result   \* one entry per call

vars == <<v_pc, v_raw, v_res, s_pc, s_raw, s_res, d_pc, d_raw, d_res,
          j_pc, j_body, j_edits, j_res,
          api_key, pc, c_raw, tn, request, sent, reply, bodyRead, result>>

v_vars == <<v_pc, v_raw, v_res>>
s_vars == <<s_pc, s_raw, s_res>>
d_vars == <<d_pc, d_raw, d_res>>
j_vars == <<j_pc, j_body, j_edits, j_res>>
c_vars == <<api_key, pc, c_raw, tn, request, sent, reply, bodyRead, result>>

---------------------------------------------------------------------------
(* Bounds of the model. *)

\* longest run of digits in a generated tracking number
MaxDigits == 15
\* longest run of whitespace put before or after a generated string
MaxPad == 1

---------------------------------------------------------------------------
(* Characters and strings. *)

Ok(v)  == [ok |-> TRUE, val |-> v]
Err(e) == [ok |-> FALSE, err |-> e]

Rep(c, n) == [i \in 1..n |-> c]

AsciiDigit == {"0", "1", "2", "3", "4", "5", "6", "7", "8", "9"}
\* \d of the regex crate is Unicode-aware: every decimal digit (Nd), not only 0-9
UnicodeDigit == AsciiDigit \cup {"U+0663"}
AsciiLetter ==
    {"a", "b", "c", "d", "e", "f", "g", "h", "i", "j", "k", "l", "m",
     "n", "o", "p", "q", "r", "s", "t", "u", "v", "w", "x", "y", "z",
     "A", "B", "C", "D", "E", "F", "G", "H", "I", "J", "K", "L", "M",
     "N", "O", "P", "Q", "R", "S", "T", "U", "V", "W", "X", "Y", "Z"}
AsciiAlnum == AsciiLetter \cup AsciiDigit
\* the characters str::trim removes (White_Space), as far as the model draws them
WhiteSpace == {" ", "\t", "\n"}

AllIn(s, class) == \A i \in 1..Len(s) : s[i] \in class
StartsWith(s, p) == Len(s) >= Len(p) /\ SubSeq(s, 1, Len(p)) = p
Drop(s, n) == SubSeq(s, n + 1, Len(s))

RECURSIVE trim_start(_)
trim_start(s) ==
    IF s # <<>> /\ Head(s) \in WhiteSpace THEN trim_start(Tail(s)) ELSE s

RECURSIVE trim_end(_)
trim_end(s) ==
    IF s # <<>> /\ s[Len(s)] \in WhiteSpace
    THEN trim_end(SubSeq(s, 1, Len(s) - 1))
    ELSE s

\* a bug: only the leading whitespace is removed
trim_leading_only(s) == trim_start(s)

\* str::trim
trim(s) == trim_end(trim_start(s))

---------------------------------------------------------------------------
(* TrackingNumber::try_from: the regular expression, one operator per      *)
(* alternative, in the order of the source.                                *)

\* (^(\d{10})$)
Pattern1(s) == Len(s) = 10 /\ AllIn(s, UnicodeDigit)

\* (^(000|JJD01|JJD00|JVGL)\d+$)
Pattern2(s) ==
    \E p \in {<<"0", "0", "0">>, <<"J", "J", "D", "0", "1">>,
              <<"J", "J", "D", "0", "0">>, <<"J", "V", "G", "L">>} :
        /\ StartsWith(s, p)
        /\ Len(s) > Len(p)
        /\ AllIn(Drop(s, Len(p)), UnicodeDigit)

\* (^(GM|LX|RX|[a-zA-Z]{5})\d+$)
Pattern3(s) ==
    \/ \E p \in {<<"G", "M">>, <<"L", "X">>, <<"R", "X">>} :
        /\ StartsWith(s, p)
        /\ Len(s) > 2
        /\ AllIn(Drop(s, 2), UnicodeDigit)
    \/ /\ Len(s) > 5
       /\ AllIn(SubSeq(s, 1, 5), AsciiLetter)
       /\ AllIn(Drop(s, 5), UnicodeDigit)

\* (^(\d{10,39})$)
Pattern4(s) == Len(s) \in 10..39 /\ AllIn(s, UnicodeDigit)

\* (^(3S|JVGL|JJD)[a-zA-Z0-9]+$)
Pattern5(s) ==
    \E p \in {<<"3", "S">>, <<"J", "V", "G", "L">>, <<"J", "J", "D">>} :
        /\ StartsWith(s, p)
        /\ Len(s) > Len(p)
        /\ AllIn(Drop(s, Len(p)), AsciiAlnum)

\* (^\d{7}$)
Pattern6(s) == Len(s) = 7 /\ AllIn(s, UnicodeDigit)

\* (^\d[a-zA-Z]{2}\d{4,6}$)
Pattern7(s) ==
    /\ Len(s) \in 7..9
    /\ s[1] \in UnicodeDigit
    /\ AllIn(SubSeq(s, 2, 3), AsciiLetter)
    /\ AllIn(Drop(s, 3), UnicodeDigit)

\* (^[a-zA-Z]{3,4}\d+$)
Pattern8(s) ==
    \E k \in 3..4 :
        /\ Len(s) > k
        /\ AllIn(SubSeq(s, 1, k), AsciiLetter)
        /\ AllIn(Drop(s, k), UnicodeDigit)

\* (^\d{3}-\d{8}$)
Pattern9(s) ==
    /\ Len(s) = 12
    /\ AllIn(SubSeq(s, 1, 3), UnicodeDigit)
    /\ s[4] = "-"
    /\ AllIn(Drop(s, 4), UnicodeDigit)

\* (^[a-zA-Z]{2,3}-[a-zA-Z]{2,3}-\d{7}$)
Pattern10(s) ==
    \E a \in 2..3, b \in 2..3 :
        /\ Len(s) = a + b + 9
        /\ AllIn(SubSeq(s, 1, a), AsciiLetter)
        /\ s[a + 1] = "-"
        /\ AllIn(SubSeq(s, a + 2, a + b + 1), AsciiLetter)
        /\ s[a + b + 2] = "-"
        /\ AllIn(Drop(s, a + b + 2), UnicodeDigit)

\* (^\d{4}-\d{5}$)
Pattern11(s) ==
    /\ Len(s) = 10
    /\ AllIn(SubSeq(s, 1, 4), UnicodeDigit)
    /\ s[5] = "-"
    /\ AllIn(Drop(s, 5), UnicodeDigit)

\* (^\d{9,10}|\d{14}$): the alternation binds weaker than the anchors, so
\* this is "starts with 9 digits" or "ends with 14 digits"
Pattern12(s) ==
    \/ Len(s) >= 9 /\ AllIn(SubSeq(s, 1, 9), UnicodeDigit)
    \/ Len(s) >= 14 /\ AllIn(Drop(s, Len(s) - 14), UnicodeDigit)

\* re.is_match(tracking_number)
is_match(s) ==
    \/ Pattern1(s) \/ Pattern2(s) \/ Pattern3(s) \/ Pattern4(s)
    \/ Pattern5(s) \/ Pattern6(s) \/ Pattern7(s) \/ Pattern8(s)
    \/ Pattern9(s) \/ Pattern10(s) \/ Pattern11(s) \/ Pattern12(s)

\* a bug: the string wrapped without the check
TrackingNumber_unchecked(tracking_number) ==
    Ok([tracking_number |-> trim(tracking_number)])

TrackingNumber_try_from(tracking_number) ==
    IF ~is_match(tracking_number)
    THEN Err("Tracking Number did not match DHL format")
    ELSE Ok([tracking_number |-> trim(tracking_number)])

---------------------------------------------------------------------------
(* The strings the validator is run on: an optional prefix, a run of       *)
(* digits, an optional tail, and the hyphenated forms, each with           *)
(* whitespace before and after.                                            *)

Pads == UNION {[1..n -> {" ", "\n"}] : n \in 0..MaxPad}

TnPrefixes ==
    {<<>>, <<"J", "J", "D", "0", "1">>, <<"J", "V", "G", "L">>,
     <<"G", "M">>, <<"R", "X">>, <<"a", "b", "C", "d", "e">>,
     <<"3", "S">>, <<"3", "S", "x">>, <<"J", "J", "D", "z">>,
     <<"1", "a", "B">>, <<"a", "b", "c">>, <<"a", "B", "c", "d">>,
     <<"a", "b">>, <<"a", "b", "c", "d", "e", "f">>,
     <<"U+0663">>, <<"!">>}

TnTails == {<<>>, <<"x">>, <<"&", "a", "=", "1">>, <<"/", "#">>}

TnHyphenated ==
    {Rep("1", a) \o <<"-">> \o Rep("2", b) : a \in 3..4, b \in {5, 8}}
    \cup {l \o <<"-">> \o m \o <<"-">> \o Rep("3", n) :
            l \in {<<"a", "b">>, <<"A", "b", "c">>, <<"a">>},
            m \in {<<"X", "y">>, <<"x", "y", "z", "w">>},
            n \in 6..7}
    \cup {<<"!", "!", "!">>, <<"P", "A", "R", "C", "E", "L">>}

TnCores ==
    {p \o Rep("7", n) \o t : p \in TnPrefixes, n \in 0..MaxDigits, t \in TnTails}
    \cup TnHyphenated

TnInputs == {a \o c \o b : a \in Pads, c \in TnCores, b \in Pads}

v_Init ==
    /\ v_pc = "call"
    /\ v_raw \in TnInputs
    /\ v_res = Err("")

\* one call of TrackingNumber::try_from(v_raw)
Validate ==
    /\ v_pc = "call"
    /\ v_res' = TrackingNumber_try_from(v_raw)
    /\ v_pc' = "done"
    /\ UNCHANGED v_raw

---------------------------------------------------------------------------
(* Service::try_from and StatusCode::try_from. *)

\* a bug: the ParcelPL variant given the string its siblings suggest
Service_try_from_with_pl(service) ==
    LET t == trim(service) IN
    CASE t = <<"f", "r", "e", "i", "g", "h", "t">> -> Ok("Freight")
      [] t = <<"e", "x", "p", "r", "e", "s", "s">> -> Ok("Express")
      [] t = <<"p", "a", "r", "c", "e", "l", "-", "d", "e">> -> Ok("ParcelDE")
      [] t = <<"p", "a", "r", "c", "e", "l", "-", "n", "l">> -> Ok("ParcelNL")
      [] t = <<"p", "a", "r", "c", "e", "l", "-", "p", "l">> -> Ok("ParcelPL")
      [] t = <<"d", "s", "c">> -> Ok("DSC")
      [] t = <<"d", "g", "f">> -> Ok("DGF")
      [] t = <<"e", "c", "o", "m", "m", "e", "r", "c", "e">> -> Ok("Ecommerce")
      [] OTHER -> Err("Not a valid service")

Service_try_from(service) ==
    LET t == trim(service) IN
    CASE t = <<"f", "r", "e", "i", "g", "h", "t">> -> Ok("Freight")
      [] t = <<"e", "x", "p", "r", "e", "s", "s">> -> Ok("Express")
      [] t = <<"p", "a", "r", "c", "e", "l", "-", "d", "e">> -> Ok("ParcelDE")
      [] t = <<"p", "a", "r", "c", "e", "l", "-", "n", "l">> -> Ok("ParcelNL")
      [] t = <<"d", "s", "c">> -> Ok("DSC")
      [] t = <<"d", "g", "f">> -> Ok("DGF")
      [] t = <<"e", "c", "o", "m", "m", "e", "r", "c", "e">> -> Ok("Ecommerce")
      [] OTHER -> Err("Not a valid service")

StatusCode_try_from(status_code) ==
    LET t == trim(status_code) IN
    CASE t = <<"p", "r", "e", "-", "t", "r", "a", "n", "s", "i", "t">> -> Ok("PreTransit")
      [] t = <<"t", "r", "a", "n", "s", "i", "t">> -> Ok("Transit")
      [] t = <<"d", "e", "l", "i", "v", "e", "r", "e", "d">> -> Ok("Delivered")
      [] t = <<"f", "a", "i", "l", "u", "r", "e">> -> Ok("Failure")
      [] t = <<"u", "n", "k", "n", "o", "w", "n">> -> Ok("Unknown")
      [] OTHER -> Err("Not a valid status code")

\* the strings Service::try_from is run on
ServiceWords ==
    {<<"f", "r", "e", "i", "g", "h", "t">>,
     <<"e", "x", "p", "r", "e", "s", "s">>,
     <<"p", "a", "r", "c", "e", "l", "-", "d", "e">>,
     <<"p", "a", "r", "c", "e", "l", "-", "n", "l">>,
     <<"p", "a", "r", "c", "e", "l", "-", "p", "l">>,
     <<"d", "s", "c">>,
     <<"d", "g", "f">>,
     <<"e", "c", "o", "m", "m", "e", "r", "c", "e">>,
     <<"P", "A", "R", "C", "E", "L", "-", "D", "E">>,
     <<"E", "x", "p", "r", "e", "s", "s">>,
     <<"e", "x", "p", "r", "e", "s">>,
     <<"e", "x", " ", "p", "r", "e", "s", "s">>,
     <<"p", "a", "r", "c", "e", "l", "-">>,
     <<"t", "r", "a", "n", "s", "i", "t">>,
     <<>>}

ServiceInputs == {a \o w \o b : a \in Pads, w \in ServiceWords, b \in Pads}

s_Init ==
    /\ s_pc = "call"
    /\ s_raw \in ServiceInputs
    /\ s_res = Err("")

\* one call of Service::try_from(s_raw)
ParseService ==
    /\ s_pc = "call"
    /\ s_res' = Service_try_from(s_raw)
    /\ s_pc' = "done"
    /\ UNCHANGED s_raw

---------------------------------------------------------------------------
(* The date codecs.  NaiveDateTime::parse_from_str (chrono 0.4) walks the  *)
(* items of the format over the string: a literal must be the next         *)
(* character, a space item skips any whitespace, a numeric item skips      *)
(* whitespace and then takes between one digit and its width; the string   *)
(* must be used up.  The fields are then checked to name a calendar date   *)
(* and a time of day; second 60 is a leap second.                          *)

Digits10 == <<"0", "1", "2", "3", "4", "5", "6", "7", "8", "9">>
DigitVal(c) == (CHOOSE i \in 1..10 : Digits10[i] = c) - 1

RECURSIVE NumVal(_)
NumVal(s) ==
    IF s = <<>> THEN 0
    ELSE NumVal(SubSeq(s, 1, Len(s) - 1)) * 10 + DigitVal(s[Len(s)])

RECURSIVE LeadDigits(_, _)
LeadDigits(s, max) ==
    IF max = 0 \/ s = <<>> \/ Head(s) \notin AsciiDigit THEN 0
    ELSE 1 + LeadDigits(Tail(s), max - 1)

\* chrono::format::scan::number(s, min, max)
scan_number(s, min, max) ==
    LET n == LeadDigits(s, max) IN
    IF n < min
    THEN Err(IF s = <<>> THEN "TOO_SHORT" ELSE "INVALID")
    ELSE Ok([rest |-> Drop(s, n), v |-> NumVal(SubSeq(s, 1, n))])

Num(f, w, sg) == [k |-> "num", f |-> f, w |-> w, signed |-> sg]
Lit(c) == [k |-> "lit", c |-> c]
Space == [k |-> "space"]

\* "%Y-%m-%d"
FmtYmd ==
    <<Num("year", 4, TRUE), Lit("-"), Num("month", 2, FALSE), Lit("-"),
      Num("day", 2, FALSE)>>
\* "%H:%M:%S"
FmtHms ==
    <<Num("hour", 2, FALSE), Lit(":"), Num("minute", 2, FALSE), Lit(":"),
      Num("second", 2, FALSE)>>
\* "%Y-%m-%dT%H:%M:%S"
FmtDateTime == FmtYmd \o <<Lit("T")>> \o FmtHms
\* "%Y-%m-%d %H:%M:%S"
FmtDate == FmtYmd \o <<Space>> \o FmtHms

\* the numeric item of chrono::format::parse: the sign, then the digits
parse_numeric(s0, item) ==
    LET s == trim_start(s0) IN
    IF item.signed /\ s # <<>> /\ Head(s) \in {"-", "+"}
    THEN LET r == scan_number(Tail(s), 1, Len(s)) IN
         IF ~r.ok THEN r
         ELSE Ok([rest |-> r.val.rest,
                  v |-> IF Head(s) = "-" THEN 0 - r.val.v ELSE r.val.v])
    ELSE scan_number(s, 1, item.w)

RECURSIVE parse_items(_, _, _)
parse_items(parsed, s, items) ==
    IF items = <<>>
    THEN IF s # <<>> THEN Err("TOO_LONG") ELSE Ok(parsed)
    ELSE LET item == Head(items) IN
         CASE item.k = "lit" ->
                IF s = <<>> THEN Err("TOO_SHORT")
                ELSE IF Head(s) # item.c THEN Err("INVALID")
                ELSE parse_items(parsed, Tail(s), Tail(items))
           [] item.k = "space" ->
                parse_items(parsed, trim_start(s), Tail(items))
           [] item.k = "num" ->
                LET r == parse_numeric(s, item) IN
                IF ~r.ok THEN r
                ELSE parse_items([parsed EXCEPT ![item.f] = r.val.v],
                                 r.val.rest, Tail(items))

IsLeapYear(y) == (y % 4 = 0 /\ y % 100 # 0) \/ y % 400 = 0

DaysInMonth(y, m) ==
    CASE m \in {1, 3, 5, 7, 8, 10, 12} -> 31
      [] m \in {4, 6, 9, 11} -> 30
      [] OTHER -> IF IsLeapYear(y) THEN 29 ELSE 28

\* Parsed::to_naive_datetime_with_offset(0), for the fields these formats set
to_naive_datetime(p) ==
    IF \/ p.year \notin -262144..262143
       \/ p.month \notin 1..12
       \/ p.day \notin 1..DaysInMonth(p.year, p.month)
       \/ p.hour \notin 0..23
       \/ p.minute \notin 0..59
       \/ p.second \notin 0..60
    THEN Err("OUT_OF_RANGE")
    ELSE Ok([year |-> p.year, month |-> p.month, day |-> p.day,
             secs |-> p.hour * 3600 + p.minute * 60
                      + (IF p.second = 60 THEN 59 ELSE p.second),
             frac |-> IF p.second = 60 THEN 1000000000 ELSE 0])

NoFields ==
    [year |-> 0, month |-> 0, day |-> 0, hour |-> 0, minute |-> 0, second |-> 0]

NaiveDateTime_parse_from_str(s, fmt) ==
    LET r == parse_items(NoFields, s, fmt) IN
    IF ~r.ok THEN r ELSE to_naive_datetime(r.val)

\* a bug: midnight itself appended
DateSuffixMidnight == <<" ", "0", "0", ":", "0", "0", ":", "0", "0">>

\* the time of day format!("{} 00:00:01", date_str) appends
DateSuffix == <<" ", "0", "0", ":", "0", "0", ":", "0", "1">>

deserialize_dhl_datetime(date_str) ==
    LET naive_date == NaiveDateTime_parse_from_str(date_str, FmtDateTime) IN
    IF naive_date.ok THEN Ok(naive_date.val) ELSE Err("Could not parse date")

deserialize_dhl_date(date_str) ==
    LET naive_date ==
            NaiveDateTime_parse_from_str(date_str \o DateSuffix, FmtDate) IN
    IF naive_date.ok THEN Ok(naive_date.val) ELSE Err("Could not parse date")

\* the strings the codecs are run on
YearStrs == {<<"2", "0", "2", "1">>, <<"2", "0", "2", "0">>, <<"2", "1">>}
MonthStrs == {<<"0", "6">>, <<"6">>, <<"0", "2">>, <<"1", "3">>, <<"0", "0">>}
DayStrs == {<<"1", "5">>, <<"5">>, <<"2", "9">>, <<"3", "0">>, <<"3", "1">>, <<"3", "2">>, <<"0">>}
HourStrs == {<<"1", "0">>, <<"7">>, <<"2", "4">>}
MinuteStrs == {<<"3", "0">>, <<"6", "0">>}
SecondStrs == {<<"0", "0">>, <<"5">>, <<"6", "0">>, <<"6", "1">>}

DateStrs ==
    {y \o <<"-">> \o m \o <<"-">> \o d :
        y \in YearStrs, m \in MonthStrs, d \in DayStrs}
TimeStrs ==
    {h \o <<":">> \o m \o <<":">> \o s :
        h \in HourStrs, m \in MinuteStrs, s \in SecondStrs}
OddDateStrs == 
    {<<>>,
     <<"2", "0", "2", "1", "/", "0", "6", "/", "1", "5">>,
     <<"2", "0", "2", "1", "0", "6", "1", "5">>,
     <<"2", "0", "2", "1", "-", "0", "6">>,
     <<"2", "0", "2", "1", "-", "0", "6", "-">>,
     <<"2", "0", "2", "1", "-", "0", "6", "-", "1", "5", "Z">>,
     <<" ", "2", "0", "2", "1", "-", "0", "6", "-", "1", "5">>,
     <<"2", "0", "2", "1", "-", " ", "6", "-", "1", "5">>,
     <<"2", "0", "2", "1", "-", "0", "6", "-", "1", "5", " ">>,
     <<"2", "0", "2", "1", "1", "-", "0", "6", "-", "1", "5">>,
     <<"+", "2", "0", "2", "1", "-", "0", "6", "-", "1", "5">>,
     <<"-", "1", "-", "0", "1", "-", "0", "1">>,
     <<"2", "0", "2", "1", "-", "0", "6", "-", "1", "5", "T", "1", "0", ":", "3", "0">>,
     <<"2", "0", "2", "1", "-", "0", "6", "-", "1", "5", "T", "1", "0", ":", "3", "0", ":", "0", "0", "Z">>,
     <<"2", "0", "2", "1", "-", "0", "6", "-", "1", "5", "T", "1", "0", ":", "3", "0", ":", "0", "0", ".", "5">>,
     <<"2", "0", "2", "1", "-", "0", "6", "-", "1", "5", "t", "1", "0", ":", "3", "0", ":", "0", "0">>,
     <<"2", "0", "2", "1", "-", "0", "6", "-", "1", "5", "T", " ", "7", ":", "0", "5", ":", "0", "9">>,
     <<"1", "9", "0", "0", "-", "0", "2", "-", "2", "9">>,
     <<"2", "0", "0", "0", "-", "0", "2", "-", "2", "9">>,
     <<"J", "u", "n", "e", " ", "1", "5">>,
     <<"2", "0", "2", "1", "-", "0", "6", "-", "1", "5", " ", "0", "0">>,
     <<"2", "0", "2", "1", "-", "0", "6", "-", "0", "1", "5">>,
     <<"2", "0", "2", "1", "-", "0", "6", "-", "1", "5", " ", "1">>,
     <<"2", "0", "2", "1", "-", "0", "6", "-", "1", "5", " ", "1", "2", ":", "3", "0", ":">>,
     <<"2", "0", "2", "1", "-", "0", "6", "-", "1", "5", "T", "1", "0", ":", "3", "0", ":", "0", "0", " ">>,
     <<"2", "0", "2", "1", "-", "0", "6", "-", "1", "5", " ", "0", "0", ":", "0", "0", ":", "0", "1">>}

DateInputs ==
    DateStrs
    \cup {d \o sep \o t : d \in DateStrs, sep \in {<<"T">>, <<" ">>}, t \in TimeStrs}
    \cup OddDateStrs

d_Init ==
    /\ d_pc = "call"
    /\ d_raw \in DateInputs
    /\ d_res = Err("")

\* serde hands d_raw to deserialize_dhl_date (estimatedTimeOfDelivery)
DecodeDate ==
    /\ d_pc = "call"
    /\ d_res' = deserialize_dhl_date(d_raw)
    /\ d_pc' = "date"
    /\ UNCHANGED d_raw

\* serde hands d_raw to deserialize_dhl_datetime (timestamp)
DecodeDateTime ==
    /\ d_pc = "call"
    /\ d_res' = deserialize_dhl_datetime(d_raw)
    /\ d_pc' = "datetime"
    /\ UNCHANGED d_raw

---------------------------------------------------------------------------
(* JSON documents and serde's derived Deserialize of the response model.  *)
(* A JSON value is a record with one field, which names its kind.          *)

JNull == [null |-> TRUE]
JStr(s) == [str |-> s]
JNum(n) == [num |-> n]
JArr(a) == [arr |-> a]
JObj(f) == [obj |-> f]

IsNull(j) == "null" \in DOMAIN j
IsStr(j) == "str" \in DOMAIN j
IsNum(j) == "num" \in DOMAIN j
IsArr(j) == "arr" \in DOMAIN j
IsObj(j) == "obj" \in DOMAIN j

None == [none |-> TRUE]
Some(v) == [some |-> v]

\* String::deserialize
de_String(j) == IF IsStr(j) THEN Ok(j.str) ELSE Err("invalid type: expected a string")

\* u32::deserialize (the numbers the model draws are far below 2^32)
de_u32(j) ==
    IF IsNum(j) /\ j.num >= 0 THEN Ok(j.num)
    ELSE Err("invalid type: expected u32")

\* what a struct's visitor finds under key k: the value, or nothing
JAbsent == [absent |-> TRUE]
Field(j, k) == IF IsObj(j) /\ k \in DOMAIN j.obj THEN j.obj[k] ELSE JAbsent

\* the elements of an array
Elems(j) == IF IsArr(j) THEN j.arr ELSE <<>>

\* Vec<T>::deserialize; r is the sequence of the elements' results
de_Vec(j, r) ==
    IF ~IsArr(j) THEN Err("invalid type: expected a sequence")
    ELSE IF \A i \in 1..Len(r) : r[i].ok
         THEN Ok([i \in 1..Len(r) |-> r[i].val])
         ELSE r[CHOOSE i \in 1..Len(r) : ~r[i].ok]

\* a field of type T without serde(default): its absence is an error;
\* r is the result of T's deserialiser on the field's value
ReqField(j, k, r) ==
    IF ~IsObj(j) THEN Err("invalid type: expected a struct")
    ELSE IF k \notin DOMAIN j.obj THEN Err("missing field")
    ELSE r

\* a field of type Option<T>: absent or null is None
OptField(j, k, r) ==
    IF ~IsObj(j) THEN Err("invalid type: expected a struct")
    ELSE IF k \notin DOMAIN j.obj \/ IsNull(j.obj[k]) THEN Ok(None)
    ELSE IF r.ok THEN Ok(Some(r.val)) ELSE r

\* a field with serde(default) and deserialize_with: absent is Default::default()
DefaultField(j, k, r, default) ==
    IF ~IsObj(j) THEN Err("invalid type: expected a struct")
    ELSE IF k \notin DOMAIN j.obj THEN Ok(default)
    ELSE r

\* the struct built from its fields' results, or the error of one of them
Struct(f) ==
    IF \A k \in DOMAIN f : f[k].ok
    THEN Ok([k \in DOMAIN f |-> f[k].val])
    ELSE f[CHOOSE k \in DOMAIN f : ~f[k].ok]

deserialize_service(j) ==
    LET service_str == de_String(j) IN
    IF ~service_str.ok THEN service_str
    ELSE LET r == Service_try_from(service_str.val) IN
         IF r.ok THEN r ELSE Err(r.err)

\* a bug: an unrecognised status code read as no status code
deserialize_status_code_lenient(j) ==
    LET status_code_str == de_String(j) IN
    IF ~status_code_str.ok THEN status_code_str
    ELSE LET r == StatusCode_try_from(status_code_str.val) IN
         IF r.ok THEN Ok(Some(r.val)) ELSE Ok(None)

deserialize_status_code(j) ==
    LET status_code_str == de_String(j) IN
    IF ~status_code_str.ok THEN status_code_str
    ELSE LET r == StatusCode_try_from(status_code_str.val) IN
         IF r.ok THEN Ok(Some(r.val)) ELSE Err("Could not parse status code")

\* the serde entry of deserialize_dhl_datetime: String::deserialize, then the codec
de_dhl_datetime(j) ==
    LET date_str == de_String(j) IN
    IF ~date_str.ok THEN date_str ELSE deserialize_dhl_datetime(date_str.val)

\* the serde entry of deserialize_dhl_date
de_dhl_date(j) ==
    LET date_str == de_String(j) IN
    IF ~date_str.ok THEN date_str ELSE deserialize_dhl_date(date_str.val)

de_Address(j) ==
    Struct([country_code |->
                OptField(j, "countryCode",
                         de_String(Field(j, "countryCode"))),
            postal_code |->
                OptField(j, "postalCode",
                         de_String(Field(j, "postalCode"))),
            address_locality |->
                OptField(j, "addressLocality",
                         de_String(Field(j, "addressLocality"))),
            street_address |->
                OptField(j, "streetAddress",
                         de_String(Field(j, "streetAddress")))])

de_Place(j) ==
    Struct([address |->
                ReqField(j, "address",
                         de_Address(Field(j, "address")))])

de_ShipmentEvent(j) ==
    Struct([timestamp |->
                ReqField(j, "timestamp",
                         de_dhl_datetime(Field(j, "timestamp"))),
            location |->
                OptField(j, "location",
                         de_Place(Field(j, "location"))),
            status_code |->
                DefaultField(j, "statusCode",
                             deserialize_status_code(Field(j, "statusCode")), None),
            description |->
                OptField(j, "description",
                         de_String(Field(j, "description"))),
            remark |->
                OptField(j, "remark",
                         de_String(Field(j, "remark"))),
            next_steps |->
                OptField(j, "nextSteps",
                         de_String(Field(j, "nextSteps")))])

de_Product(j) ==
    Struct([description |->
                ReqField(j, "description",
                         de_String(Field(j, "description"))),
            product_name |->
                ReqField(j, "productName",
                         de_String(Field(j, "productName")))])

de_ProofOfDelivery(j) ==
    Struct([document_url |->
                ReqField(j, "documentUrl",
                         de_String(Field(j, "documentUrl")))])

de_Person(j) ==
    Struct([family_name |->
                ReqField(j, "familyName",
                         de_String(Field(j, "familyName"))),
            given_name |->
                ReqField(j, "givenName",
                         de_String(Field(j, "givenName"))),
            name |->
                ReqField(j, "name",
                         de_String(Field(j, "name")))])

de_Organization(j) ==
    Struct([description |->
                ReqField(j, "description",
                         de_String(Field(j, "description"))),
            organization_name |->
                ReqField(j, "organizationName",
                         de_String(Field(j, "organizationName")))])

de_PieceIds(j) ==
    de_Vec(j, [i \in 1..Len(Elems(j)) |-> de_String(Elems(j)[i])])

de_ShipmentDetails(j) ==
    Struct([carrier |->
                OptField(j, "carrier",
                         de_Organization(Field(j, "carrier"))),
            product |->
                OptField(j, "product",
                         de_Product(Field(j, "product"))),
            receiver |->
                OptField(j, "receiver",
                         de_Person(Field(j, "receiver"))),
            sender |->
                OptField(j, "sender",
                         de_Person(Field(j, "sender"))),
            proof_of_delivery |->
                ReqField(j, "proofOfDelivery",
                         de_ProofOfDelivery(Field(j, "proofOfDelivery"))),
            total_number_of_pieces |->
                ReqField(j, "totalNumberOfPieces",
                         de_u32(Field(j, "totalNumberOfPieces"))),
            piece_ids |->
                ReqField(j, "pieceIds",
                         de_PieceIds(Field(j, "pieceIds")))])

de_Events(j) ==
    de_Vec(j, [i \in 1..Len(Elems(j)) |-> de_ShipmentEvent(Elems(j)[i])])

de_Shipment(j) ==
    Struct([id |->
                ReqField(j, "id",
                         de_String(Field(j, "id"))),
            service |->
                ReqField(j, "service",
                         deserialize_service(Field(j, "service"))),
            origin |->
                OptField(j, "origin",
                         de_Place(Field(j, "origin"))),
            destination |->
                OptField(j, "destination",
                         de_Place(Field(j, "destination"))),
            status |->
                ReqField(j, "status",
                         de_ShipmentEvent(Field(j, "status"))),
            estimated_time_of_delivery |->
                ReqField(j, "estimatedTimeOfDelivery",
                         de_dhl_date(Field(j, "estimatedTimeOfDelivery"))),
            estimated_time_of_delivery_remark |->
                OptField(j, "estimatedTimeOfDeliveryRemark",
                         de_String(Field(j, "estimatedTimeOfDeliveryRemark"))),
            details |->
                ReqField(j, "details",
                         de_ShipmentDetails(Field(j, "details"))),
            events |->
                ReqField(j, "events",
                         de_Events(Field(j, "events")))])

de_Shipments(j) ==
    de_Vec(j, [i \in 1..Len(Elems(j)) |-> de_Shipment(Elems(j)[i])])

de_Urls(j) ==
    de_Vec(j, [i \in 1..Len(Elems(j)) |-> de_String(Elems(j)[i])])

\* Response::deserialize, what response.body_json() runs on a body that is JSON
de_Response(j) ==
    Struct([shipments |->
                ReqField(j, "shipments",
                         de_Shipments(Field(j, "shipments"))),
            possible_additional_shipments_url |->
                ReqField(j, "possibleAdditionalShipmentsUrl",
                         de_Urls(Field(j, "possibleAdditionalShipmentsUrl")))])

---------------------------------------------------------------------------
(* The bodies the deserialiser is run on: a well-formed response, with     *)
(* fields removed or replaced.  A path names a field by the keys that lead *)
(* to it; "1" is the first element of an array.                            *)

\* how many fields of the well-formed body are removed or replaced
MaxEdits == 1

GoodBody ==
    JObj([
      shipments |-> JArr(<<
        JObj([
          id |-> JStr(<<"0", "0", "3", "4">>),
          service |-> JStr(<<"e", "x", "p", "r", "e", "s", "s">>),
          origin |-> JObj([
            address |-> JObj([
              countryCode |-> JStr(<<"D", "E">>),
              postalCode |-> JStr(<<"5", "3", "1", "1", "3">>)])]),
          status |-> JObj([
            timestamp |-> JStr(<<"2", "0", "2", "1", "-", "0", "6", "-", "1", "5", "T", "1", "0", ":", "3", "0", ":", "0", "0">>),
            location |-> JObj([
              address |-> JObj([
                countryCode |-> JStr(<<"D", "E">>),
                postalCode |-> JStr(<<"5", "3", "1", "1", "3">>)])]),
            statusCode |-> JStr(<<"t", "r", "a", "n", "s", "i", "t">>),
            description |-> JStr(<<"o", "k">>)]),
          estimatedTimeOfDelivery |-> JStr(<<"2", "0", "2", "1", "-", "0", "6", "-", "1", "6">>),
          estimatedTimeOfDeliveryRemark |-> JStr(<<"r">>),
          details |-> JObj([
            carrier |-> JObj([
              description |-> JStr(<<"c">>),
              organizationName |-> JStr(<<"D", "H", "L">>)]),
            product |-> JObj([
              description |-> JStr(<<"p">>),
              productName |-> JStr(<<"n">>)]),
            receiver |-> JObj([
              familyName |-> JStr(<<"f">>),
              givenName |-> JStr(<<"g">>),
              name |-> JStr(<<"n">>)]),
            proofOfDelivery |-> JObj([
              documentUrl |-> JStr(<<"u">>)]),
            totalNumberOfPieces |-> JNum(1),
            pieceIds |-> JArr(<<
              JStr(<<"p", "1">>)>>)]),
          events |-> JArr(<<
            JObj([
              timestamp |-> JStr(<<"2", "0", "2", "1", "-", "0", "6", "-", "1", "4", "T", "0", "8", ":", "0", "0", ":", "0", "0">>),
              statusCode |-> JStr(<<"p", "r", "e", "-", "t", "r", "a", "n", "s", "i", "t">>)])>>)])>>),
      possibleAdditionalShipmentsUrl |-> JArr(<<>>)])

FieldPaths ==
    {<<"shipments">>,
     <<"shipments", "1">>,
     <<"shipments", "1", "id">>,
     <<"shipments", "1", "service">>,
     <<"shipments", "1", "origin">>,
     <<"shipments", "1", "origin", "address">>,
     <<"shipments", "1", "origin", "address", "countryCode">>,
     <<"shipments", "1", "origin", "address", "postalCode">>,
     <<"shipments", "1", "status">>,
     <<"shipments", "1", "status", "timestamp">>,
     <<"shipments", "1", "status", "location">>,
     <<"shipments", "1", "status", "location", "address">>,
     <<"shipments", "1", "status", "location", "address", "countryCode">>,
     <<"shipments", "1", "status", "location", "address", "postalCode">>,
     <<"shipments", "1", "status", "statusCode">>,
     <<"shipments", "1", "status", "description">>,
     <<"shipments", "1", "estimatedTimeOfDelivery">>,
     <<"shipments", "1", "estimatedTimeOfDeliveryRemark">>,
     <<"shipments", "1", "details">>,
     <<"shipments", "1", "details", "carrier">>,
     <<"shipments", "1", "details", "carrier", "description">>,
     <<"shipments", "1", "details", "carrier", "organizationName">>,
     <<"shipments", "1", "details", "product">>,
     <<"shipments", "1", "details", "product", "description">>,
     <<"shipments", "1", "details", "product", "productName">>,
     <<"shipments", "1", "details", "receiver">>,
     <<"shipments", "1", "details", "receiver", "familyName">>,
     <<"shipments", "1", "details", "receiver", "givenName">>,
     <<"shipments", "1", "details", "receiver", "name">>,
     <<"shipments", "1", "details", "proofOfDelivery">>,
     <<"shipments", "1", "details", "proofOfDelivery", "documentUrl">>,
     <<"shipments", "1", "details", "totalNumberOfPieces">>,
     <<"shipments", "1", "details", "pieceIds">>,
     <<"shipments", "1", "details", "pieceIds", "1">>,
     <<"shipments", "1", "events">>,
     <<"shipments", "1", "events", "1">>,
     <<"shipments", "1", "events", "1", "timestamp">>,
     <<"shipments", "1", "events", "1", "statusCode">>,
     <<"possibleAdditionalShipmentsUrl">>}

Replacements ==
    {JNull, JNum(7), JStr(<<"b", "o", "g", "u", "s">>), JStr(<<" ", "d", "e", "l", "i", "v", "e", "r", "e", "d", " ">>), JStr(<<"p", "a", "r", "c", "e", "l", "-", "p", "l">>)}

RECURSIVE JHas(_, _)
JHas(j, p) ==
    IF p = <<>> THEN TRUE
    ELSE IF IsObj(j)
         THEN Head(p) \in DOMAIN j.obj /\ JHas(j.obj[Head(p)], Tail(p))
    ELSE IF IsArr(j)
         THEN Head(p) = "1" /\ Len(j.arr) >= 1 /\ JHas(j.arr[1], Tail(p))
    ELSE FALSE

RECURSIVE JGet(_, _)
JGet(j, p) ==
    IF p = <<>> THEN j
    ELSE IF IsObj(j) THEN JGet(j.obj[Head(p)], Tail(p))
    ELSE JGet(j.arr[1], Tail(p))

RECURSIVE JPut(_, _, _)
JPut(j, p, v) ==
    IF p = <<>> THEN v
    ELSE IF IsObj(j)
         THEN JObj([k \in DOMAIN j.obj |->
                      IF k = Head(p) THEN JPut(j.obj[k], Tail(p), v)
                      ELSE j.obj[k]])
    ELSE JArr([i \in 1..Len(j.arr) |->
                 IF i = 1 THEN JPut(j.arr[i], Tail(p), v) ELSE j.arr[i]])

RECURSIVE JDel(_, _)
JDel(j, p) ==
    IF Len(p) = 1
    THEN IF IsObj(j)
         THEN JObj([k \in DOMAIN j.obj \ {Head(p)} |-> j.obj[k]])
         ELSE JArr(Tail(j.arr))
    ELSE IF IsObj(j)
         THEN JObj([k \in DOMAIN j.obj |->
                      IF k = Head(p) THEN JDel(j.obj[k], Tail(p))
                      ELSE j.obj[k]])
    ELSE JArr([i \in 1..Len(j.arr) |->
                 IF i = 1 THEN JDel(j.arr[i], Tail(p)) ELSE j.arr[i]])

j_Init ==
    /\ j_pc = "body"
    /\ j_body = GoodBody
    /\ j_edits = 0
    /\ j_res = Err("")

\* the server leaves a field out
RemoveField(p) ==
    /\ j_pc = "body"
    /\ j_edits < MaxEdits
    /\ JHas(j_body, p)
    /\ j_body' = JDel(j_body, p)
    /\ j_edits' = j_edits + 1
    /\ UNCHANGED <<j_pc, j_res>>

\* the server sends another value for a field
ReplaceField(p, v) ==
    /\ j_pc = "body"
    /\ j_edits < MaxEdits
    /\ JHas(j_body, p)
    /\ JGet(j_body, p) # v
    /\ j_body' = JPut(j_body, p, v)
    /\ j_edits' = j_edits + 1
    /\ UNCHANGED <<j_pc, j_res>>

\* serde_json runs Response::deserialize on the body
Deserialize ==
    /\ j_pc = "body"
    /\ j_res' = de_Response(j_body)
    /\ j_pc' = "done"
    /\ UNCHANGED <<j_body, j_edits>>

---------------------------------------------------------------------------
(* Client::get_shipments and its callers.  A call is a caller that turns   *)
(* its string into a TrackingNumber (the only way to one is try_from: the  *)
(* field is private) and then awaits get_shipments.  The calls share one   *)
(* Client and interleave at the awaits.                                    *)

\* how many calls are in flight on the one Client
NumCalls == 2

Calls == 1..NumCalls

NoTn == [tracking_number |-> <<"?">>, unset |-> TRUE]
NoRequest == [uri |-> <<>>, headers |-> <<>>]
NoReply == [status |-> 0, body |-> JNull]
Pending == Err("pending")

UriPrefix == <<"h", "t", "t", "p", "s", ":", "/", "/", "a", "p", "i", "-", "e", "u", ".", "d", "h", "l", ".", "c", "o", "m", "/", "t", "r", "a", "c", "k", "/",
     "s", "h", "i", "p", "m", "e", "n", "t", "s", "?",
     "t", "r", "a", "c", "k", "i", "n", "g", "N", "u", "m", "b", "e", "r", "=">>

\* the strings the callers hold
CallInputs ==
    {<<"1", "2", "3", "4", "5", "6", "7", "8", "9", "0">>,
     <<"1", "2", "3", "4", "5", "6", "7", "8", "9", "&", "a", "=", "1">>,
     <<"!", "!", "!">>}

\* a 200 body that is not JSON at all
NotJson == [garbage |-> TRUE]

\* the bodies a reply carries; a reply that is not a 200 may carry any of them too
ReplyBodies ==
    {GoodBody,
     JPut(GoodBody, <<"shipments", "1", "status", "statusCode">>, JStr(<<"b", "o", "g", "u", "s">>)),
     NotJson}

\* the statuses the server answers with
Statuses == {200, 401, 403, 404, 500}

\* the replies of the transport
Replies ==
    {[status |-> 200, body |-> b] : b \in ReplyBodies}
    \cup {[status |-> s, body |-> GoodBody] : s \in Statuses \ {200}}

\* a bug: the NOT_FOUND arm forgotten
StatusErrorNoNotFound(status) ==
    CASE status = 401 -> "Unauthorized"
      [] OTHER -> "ServerError"

\* the arms of match response.status() that return
StatusError(status) ==
    CASE status = 401 -> "Unauthorized"
      [] status = 404 -> "ParcelNotFound"
      [] OTHER -> "ServerError"

\* a bug: the request issued again after an error
AfterErrRetry == "validated"

\* return Err(..) and the ? operator end the call
AfterErr == "done"

\* a bug: the response kept in a slot the calls share
SharedResponse(c) == reply[1]

\* let mut response: each call's own
Response(c) == reply[c]

\* response.body_json(): the body parsed as JSON into Response
body_json(body) ==
    IF body = NotJson THEN Err("From<body_json error>")
    ELSE LET r == de_Response(body) IN
         IF r.ok THEN r ELSE Err("From<body_json error>")

c_Init ==
    /\ api_key = "key-A"
    /\ pc = [c \in Calls |-> "start"]
    /\ c_raw \in [Calls -> CallInputs]
    /\ tn = [c \in Calls |-> NoTn]
    /\ request = [c \in Calls |-> NoRequest]
    /\ sent = [c \in Calls |-> 0]
    /\ reply = [c \in Calls |-> NoReply]
    /\ bodyRead = [c \in Calls |-> FALSE]
    /\ result = [c \in Calls |-> Pending]

\* the caller: TrackingNumber::try_from(raw), and on Err no call of get_shipments
ValidateCall(c) ==
    /\ pc[c] = "start"
    /\ LET r == TrackingNumber_try_from(c_raw[c]) IN
       IF r.ok
       THEN /\ tn' = [tn EXCEPT ![c] = r.val]
            /\ pc' = [pc EXCEPT ![c] = "validated"]
            /\ UNCHANGED result
       ELSE /\ result' = [result EXCEPT ![c] = r]
            /\ pc' = [pc EXCEPT ![c] = "done"]
            /\ UNCHANGED tn
    /\ UNCHANGED <<api_key, c_raw, request, sent, reply, bodyRead>>

\* get_shipments up to the first await: the uri, the headers, the request sent
SendRequest(c) ==
    /\ pc[c] = "validated"
    /\ request' = [request EXCEPT ![c] =
                     [uri |-> UriPrefix \o tn[c].tracking_number,
                      headers |-> <<<<"Accept", "application/json">>,
                                    <<"DHL-API-KEY", api_key>>>>]]
    /\ sent' = [sent EXCEPT ![c] = @ + 1]
    /\ pc' = [pc EXCEPT ![c] = "awaiting"]
    /\ UNCHANGED <<api_key, c_raw, tn, reply, bodyRead, result>>

\* the await ends in an error of the transport: the ? returns it
TransportFails(c) ==
    /\ pc[c] = "awaiting"
    /\ result' = [result EXCEPT ![c] = Err("From<surf::Exception>")]
    /\ pc' = [pc EXCEPT ![c] = AfterErr]
    /\ UNCHANGED <<api_key, c_raw, tn, request, sent, reply, bodyRead>>

\* the await ends in a response
TransportReplies(c, r) ==
    /\ pc[c] = "awaiting"
    /\ reply' = [reply EXCEPT ![c] = r]
    /\ pc' = [pc EXCEPT ![c] = "responded"]
    /\ UNCHANGED <<api_key, c_raw, tn, request, sent, bodyRead, result>>

\* match response.status()
MatchStatus(c) ==
    /\ pc[c] = "responded"
    /\ IF Response(c).status = 200
       THEN /\ pc' = [pc EXCEPT ![c] = "body"]
            /\ UNCHANGED result
       ELSE /\ result' = [result EXCEPT ![c] = Err(StatusError(Response(c).status))]
            /\ pc' = [pc EXCEPT ![c] = AfterErr]
    /\ UNCHANGED <<api_key, c_raw, tn, request, sent, reply, bodyRead>>

\* response.body_json().await?, then Ok(res)
ReadBody(c) ==
    /\ pc[c] = "body"
    /\ bodyRead' = [bodyRead EXCEPT ![c] = TRUE]
    /\ LET res == body_json(Response(c).body) IN
       /\ result' = [result EXCEPT ![c] = res]
       /\ pc' = [pc EXCEPT ![c] = IF res.ok THEN "done" ELSE AfterErr]
    /\ UNCHANGED <<api_key, c_raw, tn, request, sent, reply>>

---------------------------------------------------------------------------
(* The specifications: one per component, the other components at rest.   *)

v_Idle == v_pc = "idle" /\ v_raw = <<>> /\ v_res = Err("")
s_Idle == s_pc = "idle" /\ s_raw = <<>> /\ s_res = Err("")
d_Idle == d_pc = "idle" /\ d_raw = <<>> /\ d_res = Err("")
j_Idle == j_pc = "idle" /\ j_body = JNull /\ j_edits = 0 /\ j_res = Err("")
c_Idle ==
    /\ api_key = "" /\ pc = <<>> /\ c_raw = <<>> /\ tn = <<>> /\ request = <<>>
    /\ sent = <<>> /\ reply = <<>> /\ bodyRead = <<>> /\ result = <<>>

InitValidate == v_Init /\ s_Idle /\ d_Idle /\ j_Idle /\ c_Idle
NextValidate == Validate /\ UNCHANGED <<s_vars, d_vars, j_vars, c_vars>>
SpecValidate == InitValidate /\ [][NextValidate]_vars

InitService == v_Idle /\ s_Init /\ d_Idle /\ j_Idle /\ c_Idle
NextService == ParseService /\ UNCHANGED <<v_vars, d_vars, j_vars, c_vars>>
SpecService == InitService /\ [][NextService]_vars

InitDate == v_Idle /\ s_Idle /\ d_Init /\ j_Idle /\ c_Idle
NextDate ==
    \/ DecodeDate /\ UNCHANGED <<v_vars, s_vars, j_vars, c_vars>>
    \/ DecodeDateTime /\ UNCHANGED <<v_vars, s_vars, j_vars, c_vars>>
SpecDate == InitDate /\ [][NextDate]_vars

InitDeser == v_Idle /\ s_Idle /\ d_Idle /\ j_Init /\ c_Idle
NextDeser ==
    \/ \E p \in FieldPaths :
         RemoveField(p) /\ UNCHANGED <<v_vars, s_vars, d_vars, c_vars>>
    \/ \E p \in FieldPaths, v \in Replacements :
         ReplaceField(p, v) /\ UNCHANGED <<v_vars, s_vars, d_vars, c_vars>>
    \/ Deserialize /\ UNCHANGED <<v_vars, s_vars, d_vars, c_vars>>
SpecDeser == InitDeser /\ [][NextDeser]_vars

InitClient == v_Idle /\ s_Idle /\ d_Idle /\ j_Idle /\ c_Init
NextClient ==
    \/ \E c \in Calls :
         ValidateCall(c) /\ UNCHANGED <<v_vars, s_vars, d_vars, j_vars>>
    \/ \E c \in Calls :
         SendRequest(c) /\ UNCHANGED <<v_vars, s_vars, d_vars, j_vars>>
    \/ \E c \in Calls :
         TransportFails(c) /\ UNCHANGED <<v_vars, s_vars, d_vars, j_vars>>
    \/ \E c \in Calls, r \in Replies :
         TransportReplies(c, r) /\ UNCHANGED <<v_vars, s_vars, d_vars, j_vars>>
    \/ \E c \in Calls :
         MatchStatus(c) /\ UNCHANGED <<v_vars, s_vars, d_vars, j_vars>>
    \/ \E c \in Calls :
         ReadBody(c) /\ UNCHANGED <<v_vars, s_vars, d_vars, j_vars>>
SpecClient == InitClient /\ [][NextClient]_vars

---------------------------------------------------------------------------
(* The properties.                                                         *)

\* t is s without its leading and trailing whitespace
IsTrimOf(t, s) ==
    \E a \in 0..Len(s) : \E b \in 0..(Len(s) - a) :
        /\ t = SubSeq(s, a + 1, Len(s) - b)
        /\ AllIn(SubSeq(s, 1, a), WhiteSpace)
        /\ AllIn(SubSeq(s, Len(s) - b + 1, Len(s)), WhiteSpace)
        /\ t = <<>> \/ (t[1] \notin WhiteSpace /\ t[Len(t)] \notin WhiteSpace)

\* C1: a string that matches the expression is accepted, and the stored
\* value is the string without its leading and trailing whitespace; the
\* match is decided on the string as given, so a string that would match
\* only once trimmed is refused.
C1_MatchedIsStoredTrimmed ==
    v_pc = "done" =>
        /\ is_match(v_raw) =>
             /\ v_res.ok
             /\ IsTrimOf(v_res.val.tracking_number, v_raw)
        /\ ~is_match(v_raw) /\ is_match(trim(v_raw)) => ~v_res.ok

\* a match that carried whitespace, stored without it
C1_Witness ==
    /\ v_pc = "done"
    /\ v_res.ok
    /\ v_raw[Len(v_raw)] \in WhiteSpace
    /\ v_res.val.tracking_number # v_raw

\* the twelfth pattern as the claim reads it: exactly 9-10 digits, or
\* exactly 14 digits
Pattern12AsClaimed(s) == Len(s) \in {9, 10, 14} /\ AllIn(s, UnicodeDigit)

MatchesAsClaimed(s) ==
    \/ Pattern1(s) \/ Pattern2(s) \/ Pattern3(s) \/ Pattern4(s)
    \/ Pattern5(s) \/ Pattern6(s) \/ Pattern7(s) \/ Pattern8(s)
    \/ Pattern9(s) \/ Pattern10(s) \/ Pattern11(s) \/ Pattern12AsClaimed(s)

\* C2: a string that matches none of the twelve patterns, the twelfth
\* being exactly 9-10 digits or exactly 14 digits and the others whole
\* string matches, is refused with the validator's error.
C2_UnmatchedIsRefused ==
    v_pc = "done" /\ ~MatchesAsClaimed(v_raw) =>
        v_res = Err("Tracking Number did not match DHL format")

\* C3: a request is issued only for a string the validator accepted, and a
\* call whose string it refused ends with the validator's error, no request
\* built or sent, no reply received.
C3_NoRequestUnlessValidated ==
    \A c \in Calls :
        /\ sent[c] > 0 => is_match(c_raw[c]) /\ tn[c] # NoTn
        /\ pc[c] = "done" /\ ~is_match(c_raw[c]) =>
             /\ result[c] = Err("Tracking Number did not match DHL format")
             /\ sent[c] = 0
             /\ request[c] = NoRequest
             /\ reply[c] = NoReply

\* a refused call has ended while another call's request is out
C3_Witness ==
    \E c, d \in Calls :
        /\ pc[c] = "done" /\ ~is_match(c_raw[c]) /\ sent[c] = 0
        /\ sent[d] = 1

\* C4: once the transport has answered, 401 ends the call with
\* Unauthorized, 404 with ParcelNotFound, any other status but 200 with
\* ServerError; the body is read only when the status is 200, so the error
\* of body_json occurs only then; a 200 call ends only after the body is read.
C4_StatusMapping ==
    \A c \in Calls :
        /\ pc[c] = "body" => reply[c].status = 200
        /\ bodyRead[c] => reply[c].status = 200
        /\ result[c] = Err("From<body_json error>") => reply[c].status = 200
        /\ pc[c] = "done" /\ reply[c] # NoReply =>
             CASE reply[c].status = 200 ->
                    bodyRead[c] /\ result[c] = body_json(reply[c].body)
               [] reply[c].status = 401 -> result[c] = Err("Unauthorized")
               [] reply[c].status = 404 -> result[c] = Err("ParcelNotFound")
               [] OTHER -> result[c] = Err("ServerError")

\* a 404 that carried a well-formed body has ended as ParcelNotFound
C4_Witness ==
    \E c \in Calls :
        /\ pc[c] = "done"
        /\ reply[c] = [status |-> 404, body |-> GoodBody]
        /\ result[c] = Err("ParcelNotFound")
        /\ ~bodyRead[c]

\* the fields the data model calls required: the object they belong to,
\* and their key
RequiredFields ==
    LET sh == <<"shipments", "1">> IN
    {<<(<<>>), "shipments">>, <<(<<>>), "possibleAdditionalShipmentsUrl">>,
     <<sh, "id">>, <<sh, "service">>, <<sh, "status">>,
     <<sh, "estimatedTimeOfDelivery">>, <<sh, "details">>, <<sh, "events">>,
     <<sh \o <<"status">>, "timestamp">>,
     <<sh \o <<"events", "1">>, "timestamp">>,
     <<sh \o <<"origin">>, "address">>,
     <<sh \o <<"status", "location">>, "address">>,
     <<sh \o <<"details">>, "proofOfDelivery">>,
     <<sh \o <<"details">>, "totalNumberOfPieces">>,
     <<sh \o <<"details">>, "pieceIds">>,
     <<sh \o <<"details", "proofOfDelivery">>, "documentUrl">>,
     <<sh \o <<"details", "carrier">>, "description">>,
     <<sh \o <<"details", "carrier">>, "organizationName">>,
     <<sh \o <<"details", "product">>, "description">>,
     <<sh \o <<"details", "product">>, "productName">>,
     <<sh \o <<"details", "receiver">>, "familyName">>,
     <<sh \o <<"details", "receiver">>, "givenName">>,
     <<sh \o <<"details", "receiver">>, "name">>}

\* the events of the body: the status of the shipment and its first event
EventPaths ==
    {<<"shipments", "1", "status">>, <<"shipments", "1", "events", "1">>}

ServiceNames ==
    {<<"f", "r", "e", "i", "g", "h", "t">>, <<"e", "x", "p", "r", "e", "s", "s">>,
     <<"p", "a", "r", "c", "e", "l", "-", "d", "e">>,
     <<"p", "a", "r", "c", "e", "l", "-", "n", "l">>,
     <<"d", "s", "c">>, <<"d", "g", "f">>,
     <<"e", "c", "o", "m", "m", "e", "r", "c", "e">>}

StatusCodeNames ==
    {<<"p", "r", "e", "-", "t", "r", "a", "n", "s", "i", "t">>,
     <<"t", "r", "a", "n", "s", "i", "t">>,
     <<"d", "e", "l", "i", "v", "e", "r", "e", "d">>,
     <<"f", "a", "i", "l", "u", "r", "e">>,
     <<"u", "n", "k", "n", "o", "w", "n">>}

\* the field at path p of the body holds a string that, trimmed, is one of names
Recognised(body, p, names) ==
    /\ JHas(body, p)
    /\ IsStr(JGet(body, p))
    /\ \E n \in names : IsTrimOf(n, JGet(body, p).str)

\* the event of the parsed response that the event at path p of the body became
ParsedEvent(res, p) ==
    IF p = <<"shipments", "1", "status">>
    THEN res.shipments[1].status
    ELSE res.shipments[1].events[1]

\* C5: a body deserialises only if every required field of every object in
\* it is present and every service and status code in it is a recognised
\* string; an event without statusCode deserialises with status_code none,
\* and one whose statusCode is not recognised fails the whole body.
C5_RequiredAndEnums ==
    j_pc = "done" =>
        /\ j_res.ok =>
             /\ \A f \in RequiredFields :
                  (JHas(j_body, f[1]) /\ IsObj(JGet(j_body, f[1])))
                  => f[2] \in DOMAIN JGet(j_body, f[1]).obj
             /\ JHas(j_body, <<"shipments", "1", "service">>)
                => Recognised(j_body, <<"shipments", "1", "service">>,
                              ServiceNames)
             /\ \A e \in EventPaths :
                  (JHas(j_body, e) /\ IsObj(JGet(j_body, e))) =>
                      IF "statusCode" \in DOMAIN JGet(j_body, e).obj
                      THEN /\ Recognised(j_body, e \o <<"statusCode">>,
                                         StatusCodeNames)
                           /\ ParsedEvent(j_res.val, e).status_code # None
                      ELSE ParsedEvent(j_res.val, e).status_code = None
        /\ \A e \in EventPaths :
             (/\ JHas(j_body, e \o <<"statusCode">>)
              /\ ~Recognised(j_body, e \o <<"statusCode">>, StatusCodeNames))
             => ~j_res.ok

\* a body whose status event has no statusCode has deserialised, with none
C5_Witness ==
    /\ j_pc = "done"
    /\ j_res.ok
    /\ JHas(j_body, <<"shipments", "1", "status">>)
    /\ ~JHas(j_body, <<"shipments", "1", "status", "statusCode">>)
    /\ j_res.val.shipments[1].status.status_code = None

ServiceTable ==
    {<<<<"f", "r", "e", "i", "g", "h", "t">>, "Freight">>,
     <<<<"e", "x", "p", "r", "e", "s", "s">>, "Express">>,
     <<<<"p", "a", "r", "c", "e", "l", "-", "d", "e">>, "ParcelDE">>,
     <<<<"p", "a", "r", "c", "e", "l", "-", "n", "l">>, "ParcelNL">>,
     <<<<"d", "s", "c">>, "DSC">>, <<<<"d", "g", "f">>, "DGF">>,
     <<<<"e", "c", "o", "m", "m", "e", "r", "c", "e">>, "Ecommerce">>}

\* C6: Service::try_from succeeds exactly when the string without its
\* leading and trailing whitespace is one of the seven names, compared
\* case-sensitively, and then gives that name's variant; ParcelPL is never
\* the result.
C6_ServiceExactAfterTrim ==
    s_pc = "done" =>
        LET hits == {e \in ServiceTable : IsTrimOf(e[1], s_raw)} IN
        /\ s_res.ok <=> hits # {}
        /\ s_res.ok => \E e \in hits : s_res.val = e[2]
        /\ s_res.ok => s_res.val # "ParcelPL"

\* a padded name has parsed, and so has a refusal of parcel-pl
C6_Witness ==
    /\ s_pc = "done"
    /\ \/ s_res.ok /\ s_raw # trim(s_raw)
       \/ ~s_res.ok /\ s_raw = <<"p", "a", "r", "c", "e", "l", "-", "p", "l">>

\* s is YYYY-MM-DD: four digits, two, two, and a date of the calendar
StrictDate(s) ==
    /\ Len(s) = 10
    /\ s[5] = "-" /\ s[8] = "-"
    /\ \A i \in {1, 2, 3, 4, 6, 7, 9, 10} : s[i] \in AsciiDigit
    /\ NumVal(SubSeq(s, 6, 7)) \in 1..12
    /\ NumVal(SubSeq(s, 9, 10))
         \in 1..DaysInMonth(NumVal(SubSeq(s, 1, 4)), NumVal(SubSeq(s, 6, 7)))

\* s is HH:MM:SS, a time of day
StrictTime(s) ==
    /\ Len(s) = 8
    /\ s[3] = ":" /\ s[6] = ":"
    /\ \A i \in {1, 2, 4, 5, 7, 8} : s[i] \in AsciiDigit
    /\ NumVal(SubSeq(s, 1, 2)) \in 0..23
    /\ NumVal(SubSeq(s, 4, 5)) \in 0..59
    /\ NumVal(SubSeq(s, 7, 8)) \in 0..59

\* s is YYYY-MM-DDTHH:MM:SS
StrictDateTime(s) ==
    /\ Len(s) = 19
    /\ StrictDate(SubSeq(s, 1, 10))
    /\ s[11] = "T"
    /\ StrictTime(SubSeq(s, 12, 19))

\* the instant a strict date and a strict time of day name
InstantOf(date, time) ==
    [year |-> NumVal(SubSeq(date, 1, 4)),
     month |-> NumVal(SubSeq(date, 6, 7)),
     day |-> NumVal(SubSeq(date, 9, 10)),
     secs |-> NumVal(SubSeq(time, 1, 2)) * 3600
              + NumVal(SubSeq(time, 4, 5)) * 60 + NumVal(SubSeq(time, 7, 8)),
     frac |-> 0]

T000001 == <<"T", "0", "0", ":", "0", "0", ":", "0", "1">>

\* the date codec on a valid date gives that day at 00:00:01, which is what
\* the date-time codec gives for the date followed by T00:00:01; the
\* date-time codec on a valid date-time gives that wall-clock instant
ValidIsParsed ==
    /\ d_pc = "date" /\ StrictDate(d_raw) =>
         /\ d_res = Ok(InstantOf(d_raw, Drop(T000001, 1)))
         /\ d_res.val.secs = 1
         /\ d_res = deserialize_dhl_datetime(d_raw \o T000001)
    /\ d_pc = "datetime" /\ StrictDateTime(d_raw) =>
         d_res = Ok(InstantOf(SubSeq(d_raw, 1, 10), Drop(d_raw, 11)))

\* f is a number of one to w digits, whitespace allowed before it
LooseField(f, w) ==
    Len(trim_start(f)) \in 1..w /\ AllIn(trim_start(f), AsciiDigit)

\* f is a year: up to four digits, or a sign and digits
LooseYear(f) ==
    \/ LooseField(f, 4)
    \/ /\ Len(trim_start(f)) >= 2
       /\ Head(trim_start(f)) \in {"+", "-"}
       /\ AllIn(Tail(trim_start(f)), AsciiDigit)

YearOf(f) ==
    IF Head(trim_start(f)) = "-" THEN 0 - NumVal(Tail(trim_start(f)))
    ELSE IF Head(trim_start(f)) = "+" THEN NumVal(Tail(trim_start(f)))
    ELSE NumVal(trim_start(f))

\* s is a year, a month and a day of the calendar, separated by hyphens
LooseYmd(s) ==
    \E i \in 1..Len(s) :
        /\ s[i] = "-"
        /\ LooseYear(SubSeq(s, 1, i - 1))
        /\ \E j \in (i + 1)..Len(s) :
             /\ s[j] = "-"
             /\ LooseField(SubSeq(s, i + 1, j - 1), 2)
             /\ LooseField(Drop(s, j), 2)
             /\ NumVal(trim_start(SubSeq(s, i + 1, j - 1))) \in 1..12
             /\ NumVal(trim_start(Drop(s, j)))
                  \in 1..DaysInMonth(YearOf(SubSeq(s, 1, i - 1)),
                                     NumVal(trim_start(SubSeq(s, i + 1, j - 1))))

\* s is an hour, a minute and a second, separated by colons; 60 is a leap second
LooseHms(s) ==
    \E i \in 1..Len(s) :
        /\ s[i] = ":"
        /\ LooseField(SubSeq(s, 1, i - 1), 2)
        /\ NumVal(trim_start(SubSeq(s, 1, i - 1))) \in 0..23
        /\ \E j \in (i + 1)..Len(s) :
             /\ s[j] = ":"
             /\ LooseField(SubSeq(s, i + 1, j - 1), 2)
             /\ LooseField(Drop(s, j), 2)
             /\ NumVal(trim_start(SubSeq(s, i + 1, j - 1))) \in 0..59
             /\ NumVal(trim_start(Drop(s, j))) \in 0..60

LooseDateTime(s) ==
    \E k \in 1..Len(s) :
        /\ s[k] = "T"
        /\ LooseYmd(SubSeq(s, 1, k - 1))
        /\ LooseHms(Drop(s, k))

\* C7, as claimed: a valid date gives that day at 00:00:01, a valid
\* date-time gives its wall-clock instant, and any other string, being
\* malformed, is an error.
C7_AsClaimed ==
    /\ ValidIsParsed
    /\ d_pc = "date" /\ ~StrictDate(d_raw) => ~d_res.ok
    /\ d_pc = "datetime" /\ ~StrictDateTime(d_raw) => ~d_res.ok

\* C7, amended: a valid date gives that day at 00:00:01, a valid date-time
\* gives its wall-clock instant, and a string is an error unless it spells a
\* date of the calendar (and a time of day) in the order and with the
\* separators of the format; the fields need not have their full width, a
\* year may carry a sign, whitespace may precede a field (and follow the
\* date given to the date codec), and second 60 is accepted.
C7_ValidParsedMalformedRefused ==
    /\ ValidIsParsed
    /\ d_pc = "date" => (d_res.ok <=> LooseYmd(trim_end(d_raw)))
    /\ d_pc = "datetime" => (d_res.ok <=> LooseDateTime(d_raw))

\* a valid date has been decoded by the date codec
C7_Witness ==
    /\ d_pc = "date"
    /\ StrictDate(d_raw)
    /\ d_res.ok
    /\ d_res.val.secs = 1

\* C8: a call issues at most one request, and a call that has ended, with
\* an error or a response, takes no further step and issues nothing more.
C8_SingleAttempt ==
    /\ [](\A c \in Calls : sent[c] <= 1)
    /\ [][\A c \in Calls :
            pc[c] = "done" =>
                /\ pc'[c] = "done"
                /\ sent'[c] = sent[c]
                /\ result'[c] = result[c]]_vars

\* a call has ended with an error after its one request
C8_Witness ==
    \E c \in Calls : pc[c] = "done" /\ ~result[c].ok /\ sent[c] = 1

\* the result of a call that runs alone, from its string and what the
\* transport did for it (NoReply with a request sent: the transport failed)
AloneResult(raw, r) ==
    IF ~is_match(raw) THEN Err("Tracking Number did not match DHL format")
    ELSE IF r = NoReply THEN Err("From<surf::Exception>")
    ELSE IF r.status = 401 THEN Err("Unauthorized")
    ELSE IF r.status = 404 THEN Err("ParcelNotFound")
    ELSE IF r.status # 200 THEN Err("ServerError")
    ELSE body_json(r.body)

\* C9: under every interleaving of the calls the api key of the Client
\* never changes, every request carries it, and the result of a call is
\* the one its own string and the transport's answer to its own request
\* give when the call runs alone.
C9_CallsIndependent ==
    /\ [][api_key' = api_key]_vars
    /\ [](\A c \in Calls :
            /\ sent[c] > 0 => request[c].headers[2] = <<"DHL-API-KEY", api_key>>
            /\ pc[c] = "done" => result[c] = AloneResult(c_raw[c], reply[c]))

\* one call has ended with a response while another has a 401 in hand
C9_Witness ==
    \E c, d \in Calls :
        /\ c # d
        /\ pc[c] = "done" /\ result[c].ok
        /\ pc[d] = "responded" /\ reply[d].status = 401

\* C10: every uri requested is the fixed prefix followed by a tracking
\* number of ASCII letters, digits and hyphens only.
C10_UriIsClean ==
    \A c \in Calls :
        sent[c] > 0 =>
            /\ request[c].uri = UriPrefix \o tn[c].tracking_number
            /\ AllIn(tn[c].tracking_number, AsciiAlnum \cup {"-"})

=============================================================================
